---------------------------- MODULE Spec2Model ----------------------------
(***************************************************************************)
(* Voltage-drop propagation model of the APWRHUB calculator: the          *)
(* multi-link script main2.py and the single-chain variant main.py.        *)
(*                                                                         *)
(* One run of a script is one behaviour: the widget values are fixed when  *)
(* the run starts (Streamlit re-runs the whole script on every edit), and  *)
(* the actions are the sections of the script in program order.            *)
(*                                                                         *)
(* Numbers.  The scripts compute in Python floats.  Here every quantity is *)
(* an exact rational <<n, d>> in lowest terms with d > 0, in the unit the  *)
(* script uses (m, mm2, Ohm, A, mV, V, %), and round(x, k) is round-half-  *)
(* to-even on the exact value, as Python's round is on the float's value.  *)
(* Where the exact value lies halfway between two neighbours the float's   *)
(* representation error decides the direction in the script; on the inputs *)
(* of Init, InitStatus and InitReference the two agree in every field of   *)
(* every record.                                                           *)
(***************************************************************************)
EXTENDS Integers, Sequences, FiniteSets, TLC

VARIABLES
    \* widget values of this run
    total_anodes, current_per_anode, cable_area, reference_voltage,
    min_voltage, max_link_current, selected_link_starts,
    dist_widget, manual_widget, curr_widget, input_len_widget,
    \* script state
    pc, num_hubs, link_assignments, hub_data, remaining_anodes, anode_currents,
    link_groups, link_input_length, results, link_results, cumulative_drop_mV,
    voltage_values, voltage_drop_mV_values, percent_values, link_status,
    overall_status,
    \* main.py: widget values
    anoden_total, leitung_querschnitt, anschluss_widget, distanz_widget,
    \* main.py: script state
    m_pc, anzahl_hubs, anoden_counter, hub_stroeme, hub_distanzen,
    cumulative_current, cumulative_voltage, leitungswiderstaende,
    spannungsabfall_liste, spannung_kumuliert_liste, spannungsabfall_mV,
    spannungsabfall_prozent, warnung

inputs == <<total_anodes, current_per_anode, cable_area, reference_voltage,
            min_voltage, max_link_current, selected_link_starts,
            dist_widget, manual_widget, curr_widget, input_len_widget>>

\* main.py
main_inputs == <<anoden_total, leitung_querschnitt, anschluss_widget,
                 distanz_widget>>

main_vars == <<anoden_total, leitung_querschnitt, anschluss_widget,
               distanz_widget, m_pc, anzahl_hubs, anoden_counter, hub_stroeme,
               hub_distanzen, cumulative_current, cumulative_voltage,
               leitungswiderstaende, spannungsabfall_liste,
               spannung_kumuliert_liste, spannungsabfall_mV,
               spannungsabfall_prozent, warnung>>

\* main2.py
main2_vars == <<total_anodes, current_per_anode, cable_area, reference_voltage,
                min_voltage, max_link_current, selected_link_starts,
                dist_widget, manual_widget, curr_widget, input_len_widget,
                pc, num_hubs, link_assignments, hub_data, remaining_anodes,
                anode_currents, link_groups, link_input_length, results,
                link_results, cumulative_drop_mV, voltage_values,
                voltage_drop_mV_values, percent_values, link_status,
                overall_status>>

vars == <<main2_vars, main_vars>>

----------------------------------------------------------------------------
(* Exact rational arithmetic standing for Python's float operators.        *)

Abs(x) == IF x < 0 THEN -x ELSE x

RECURSIVE GCD(_, _)
GCD(a, b) == IF b = 0 THEN a ELSE GCD(b, a % b)

Rat(n, d) == LET g == GCD(Abs(n), d) IN <<n \div g, d \div g>>

FromInt(n) == <<n, 1>>

RAdd(a, b) ==
    LET g == GCD(a[2], b[2])
    IN  Rat(a[1] * (b[2] \div g) + b[1] * (a[2] \div g), (a[2] \div g) * b[2])

RNeg(a) == <<-a[1], a[2]>>

RSub(a, b) == RAdd(a, RNeg(b))

RMul(a, b) ==
    LET g1 == GCD(Abs(a[1]), b[2])
        g2 == GCD(Abs(b[1]), a[2])
    IN  <<(a[1] \div g1) * (b[1] \div g2), (a[2] \div g2) * (b[2] \div g1)>>

\* a / b for b > 0 (every divisor of the script is a positive widget value
\* or a positive literal)
RDiv(a, b) == RMul(a, <<b[2], b[1]>>)

RLt(a, b) ==
    LET g == GCD(a[2], b[2])
    IN  a[1] * (b[2] \div g) < b[1] * (a[2] \div g)

RLe(a, b) == ~RLt(b, a)

RECURSIVE Pow10(_)
Pow10(k) == IF k = 0 THEN 1 ELSE 10 * Pow10(k - 1)

\* Python's round(x, ndigits): nearest multiple of 10^-ndigits, ties to even
RoundHalfEven(x, ndigits) ==
    LET y == RMul(x, FromInt(Pow10(ndigits)))
        f == y[1] \div y[2]
        r == y[1] % y[2]
        m == IF 2 * r < y[2] THEN f
             ELSE IF 2 * r > y[2] THEN f + 1
             ELSE IF f % 2 = 0 THEN f ELSE f + 1
    IN  Rat(m, Pow10(ndigits))

\* math.ceil(a / b) for integers a >= 0, b > 0
CeilDiv(a, b) == (a + b - 1) \div b

Min2(a, b) == IF a <= b THEN a ELSE b

RECURSIVE SumSeq(_)
SumSeq(s) == IF s = <<>> THEN 0 ELSE Head(s) + SumSeq(Tail(s))

\* min(...) and max(...) of a non-empty list
RMinSeq(s) == s[CHOOSE k \in 1..Len(s) : \A j \in 1..Len(s) : RLe(s[k], s[j])]

RMaxSeq(s) == s[CHOOSE k \in 1..Len(s) : \A j \in 1..Len(s) : RLe(s[j], s[k])]

----------------------------------------------------------------------------
(* Program constants (main2.py lines 20-28)                                *)

COPPER_RESISTIVITY == Rat(175, 10000)
ANODES_PER_HUB == 8
DEFAULT_CURRENT_PER_ANODE == 625
DEFAULT_CABLE_AREA == FromInt(4)
DEFAULT_DISTANCE == FromInt(10)
LINK_VOLTAGE == FromInt(48)
DEFAULT_MIN_VOLTAGE == FromInt(36)
DEFAULT_MAX_LINK_CURRENT == FromInt(10)
MAX_ANODE_CURRENT == 625

\* f"APWRHUB {i+1}", f"APWRLINK {k}" and the literal "APWRLINK" of a source
\* segment's From field
HubName(i) == <<"APWRHUB", i + 1>>
LinkName(k) == <<"APWRLINK", k>>
SourceNode == <<"APWRLINK", 0>>


----------------------------------------------------------------------------
(* Calculation functions                                                   *)

\* faulty variant: a length of 0.0 is taken as missing and replaced by the
\* default distance
calculate_resistance_ZeroAsDefault(length_m, area_mm2) ==
    RDiv(RMul(COPPER_RESISTIVITY,
              IF length_m = FromInt(0) THEN DEFAULT_DISTANCE ELSE length_m),
         area_mm2)

\* faulty variant: the round-trip conductivity form of main.py
calculate_resistance_RoundTrip(length_m, area_mm2) ==
    RDiv(RMul(FromInt(2), length_m), RMul(FromInt(56), area_mm2))

calculate_resistance(length_m, area_mm2) ==
    RDiv(RMul(COPPER_RESISTIVITY, length_m), area_mm2)

\* hub_list[start_index:] with a 0-based start_index
SliceFrom(hub_list, start_index) ==
    SubSeq(hub_list, start_index + 1, Len(hub_list))

\* faulty variant: the whole list is summed, start_index is ignored
calculate_current_WholeList(hub_list, start_index) ==
    RDiv(FromInt(SumSeq([k \in 1..Len(hub_list) |-> hub_list[k].current_mA])),
         FromInt(1000))

\* faulty variant: the hubs up to start_index are summed, as main.py does
calculate_current_Upstream(hub_list, start_index) ==
    RDiv(FromInt(SumSeq([k \in 1..(start_index + 1) |-> hub_list[k].current_mA])),
         FromInt(1000))

\* faulty variant: only the hub the segment ends at is counted
calculate_current_OwnHub(hub_list, start_index) ==
    Rat(hub_list[start_index + 1].current_mA, 1000)

calculate_current(hub_list, start_index) ==
    LET tail == SliceFrom(hub_list, start_index)
    IN  RDiv(FromInt(SumSeq([k \in 1..Len(tail) |-> tail[k].current_mA])),
             FromInt(1000))

----------------------------------------------------------------------------
(* Topology builder                                                        *)

NumHubs(anodes) == CeilDiv(anodes, ANODES_PER_HUB)

hub_names(n) == [k \in 1..n |-> HubName(k - 1)]

\* hub_names.index(hub) for the selected hubs
StartIndices(n, selected) == {i \in 0..(n - 1) : HubName(i) \in selected}

\* faulty variant: any non-empty selection passes the validation
LinkStartsValid_AnySelected(selected) == selected # {}

LinkStartsValid(selected) == HubName(0) \in selected

\* faulty variant: index 0 is not exempted, so the first hub opens link 2
StartsNewLink_NoExemption(i, start_indices) == i \in start_indices

StartsNewLink(i, start_indices) == i \in start_indices /\ i # 0

RECURSIVE AssignFrom(_, _, _, _)
AssignFrom(i, current_link, n, start_indices) ==
    IF i >= n THEN <<>>
    ELSE LET c == IF StartsNewLink(i, start_indices)
                  THEN current_link + 1 ELSE current_link
         IN  <<LinkName(c)>> \o AssignFrom(i + 1, c, n, start_indices)

AssignLinks(n, selected) == AssignFrom(0, 1, n, StartIndices(n, selected))

\* faulty variant: the last hub is always given a full set of anodes
AnodesHere_AlwaysFull(remaining) == ANODES_PER_HUB

AnodesHere(remaining) == Min2(ANODES_PER_HUB, remaining)

\* the anode currents of hub i: the manual widgets, or the standard current
AnodeCurrents(i, anodes_here) ==
    IF manual_widget[i]
    THEN [a \in 1..anodes_here |-> curr_widget[i][a]]
    ELSE [a \in 1..anodes_here |-> current_per_anode]

GroupIndex(groups, link) ==
    {k \in 1..Len(groups) : groups[k].link_id = link}

AddToGroup(groups, hub) ==
    IF GroupIndex(groups, hub.link_id) = {}
    THEN Append(groups, [link_id |-> hub.link_id, hubs |-> <<hub>>])
    ELSE [groups EXCEPT ![CHOOSE k \in GroupIndex(groups, hub.link_id) : TRUE].hubs
                            = Append(@, hub)]

RECURSIVE GroupHubs(_, _)
GroupHubs(groups, hubs) ==
    IF hubs = <<>> THEN groups
    ELSE GroupHubs(AddToGroup(groups, Head(hubs)), Tail(hubs))

LinkIds(groups) == {groups[k].link_id : k \in 1..Len(groups)}

----------------------------------------------------------------------------
(* Propagation engine                                                      *)

\* faulty variant: the accumulator is overwritten, not added to
Accumulate_Overwritten(cum_before, U_drop_mV) == U_drop_mV

\* cumulative_drop_mV += U_drop_mV
Accumulate(cum_before, U_drop_mV) == RAdd(cum_before, U_drop_mV)

VoltageDrop_mV(I_A, R) == RMul(RMul(I_A, R), FromInt(1000))

\* faulty variant: the drop is subtracted in mV, without conversion to V
RemainingVoltage_NoConversion(cum_mV) == RSub(LINK_VOLTAGE, cum_mV)

RemainingVoltage(cum_mV) == RSub(LINK_VOLTAGE, RDiv(cum_mV, FromInt(1000)))


\* faulty variant: the percentage is taken of the 48 V source voltage
PercentDrop_SourceVoltage(cum_mV) ==
    RMul(RDiv(cum_mV, RMul(LINK_VOLTAGE, FromInt(1000))), FromInt(100))

PercentDrop(cum_mV) ==
    RMul(RDiv(cum_mV, RMul(reference_voltage, FromInt(1000))), FromInt(100))

ResultRow(link_id, from, to, L, R, I_A, U_drop_mV, cum_mV, remaining, percent) ==
    [APWRLINK |-> link_id,
     From |-> from,
     To |-> to,
     Distance |-> L,
     Resistance |-> RoundHalfEven(R, 4),
     Current |-> RoundHalfEven(I_A, 3),
     dVoltage |-> RoundHalfEven(U_drop_mV, 2),
     CumulativeDVoltage |-> RoundHalfEven(cum_mV, 2),
     RemainingVoltage |-> RoundHalfEven(remaining, 2),
     PercentDVoltage |-> RoundHalfEven(percent, 2)]

\* one segment: the row appended, and the accumulator and plot values after it
Segment(link_id, from, to, L, hubs, i, cum_before) ==
    LET I_A == calculate_current(hubs, i)
        R == calculate_resistance(L, cable_area)
        U_drop_mV == VoltageDrop_mV(I_A, R)
        cum == Accumulate(cum_before, U_drop_mV)
        remaining == RemainingVoltage(cum)
        percent == PercentDrop(cum)
    IN  [row |-> ResultRow(link_id, from, to, L, R, I_A, U_drop_mV, cum,
                           remaining, percent),
         cum |-> cum, remaining |-> remaining, percent |-> percent]



\* faulty variant: the source segment is as long as the first hub's distance
SourceSegment_HubDistance(link_id, hubs, L) ==
    Segment(link_id, SourceNode, hubs[1].hub_name, hubs[1].distance, hubs, 0,
            FromInt(0))

\* faulty variant: the accumulator of the previous link is carried over
SourceSegment_CarryOver(link_id, hubs, L) ==
    Segment(link_id, SourceNode, hubs[1].hub_name, L, hubs, 0, cumulative_drop_mV)

\* lines 557-566: the segment from the source to the first hub of the link
SourceSegment(link_id, hubs, L) ==
    Segment(link_id, SourceNode, hubs[1].hub_name, L, hubs, 0, FromInt(0))



\* faulty variant: every record of a link starts at the source
HubSegment_FromSource(link_id, hubs, i, cum_before) ==
    Segment(link_id, SourceNode, hubs[i + 1].hub_name,
            hubs[i + 1].distance, hubs, i, cum_before)

\* faulty variant: every segment starts its accumulation anew
HubSegment_Restarts(link_id, hubs, i, cum_before) ==
    Segment(link_id, hubs[i].hub_name, hubs[i + 1].hub_name,
            hubs[i + 1].distance, hubs, i, FromInt(0))

\* lines 590-600: the segment from hubs[i-1] to hubs[i] (0-based i > 0)
HubSegment(link_id, hubs, i, cum_before) ==
    Segment(link_id, hubs[i].hub_name, hubs[i + 1].hub_name,
            hubs[i + 1].distance, hubs, i, cum_before)


\* the hub-to-hub segments of a link from hubs[i] on, appended to rows
RECURSIVE WalkLink(_, _, _, _, _)
WalkLink(link_id, hubs, i, cum, rows) ==
    IF i >= Len(hubs) THEN rows
    ELSE LET s == HubSegment(link_id, hubs, i, cum)
         IN  WalkLink(link_id, hubs, i + 1, s.cum, Append(rows, s.row))

\* one iteration of "for link_id, hubs in link_groups.items()": the rows of
\* the link as a function of its hubs and its cable length to the first hub
LinkRecords(link_id, hubs, L) ==
    LET s == SourceSegment(link_id, hubs, L)
    IN  WalkLink(link_id, hubs, 1, s.cum, <<s.row>>)

----------------------------------------------------------------------------
(* Constraint evaluator                                                    *)

\* next((r["Current [A]"] for r in link_data if r["From"] == "APWRLINK"), 0)
LinkCurrent(link_data) ==
    LET src == {k \in 1..Len(link_data) : link_data[k].From = SourceNode}
    IN  IF src = {} THEN FromInt(0)
        ELSE link_data[CHOOSE k \in src : \A j \in src : k <= j].Current


\* faulty variant: the minimum is taken of the unrounded plot values
LinkMinVoltage_Unrounded(link_data) == RMinSeq(Tail(voltage_values))

LinkMinVoltage(link_data) ==
    RMinSeq([k \in 1..Len(link_data) |-> link_data[k].RemainingVoltage])

\* faulty variant: a voltage equal to the minimum is flagged too
VoltageBelowMinimum_OrEqual(v) == RLe(v, min_voltage)

VoltageBelowMinimum(v) == RLt(v, min_voltage)

CurrentExceedsMaximum(c) == RLt(max_link_current, c)


\* faulty variant: every node of a flagged link is named
ProblemNodes_AllNodes(rows) == [k \in 1..Len(rows) |-> rows[k].To]

\* [row["To"] for row in rows if row["Remaining Voltage [V]"] < min_voltage]
RECURSIVE ProblemNodes(_)
ProblemNodes(rows) ==
    IF rows = <<>> THEN <<>>
    ELSE (IF VoltageBelowMinimum(Head(rows).RemainingVoltage)
          THEN <<Head(rows).To>> ELSE <<>>) \o ProblemNodes(Tail(rows))

LinkStatus(link_id, link_data) ==
    LET link_current == LinkCurrent(link_data)
        link_min_voltage == LinkMinVoltage(link_data)
        low == VoltageBelowMinimum(link_min_voltage)
        high == CurrentExceedsMaximum(link_current)
    IN  [link_id |-> link_id,
         link_current |-> link_current,
         link_min_voltage |-> link_min_voltage,
         link_max_drop_percent |->
             RMaxSeq([k \in 1..Len(link_data) |-> link_data[k].PercentDVoltage]),
         link_max_drop_mV |->
             RMaxSeq([k \in 1..Len(link_data) |-> link_data[k].CumulativeDVoltage]),
         status_color |-> IF low \/ high THEN "red" ELSE "green",
         status_message |-> IF high THEN "current exceeds maximum"
                            ELSE IF low THEN "voltage below minimum"
                            ELSE "System OK",
         voltage_error |-> low,
         problem_nodes |-> IF low THEN ProblemNodes(link_data) ELSE <<>>,
         current_error |-> high]


\* faulty variant: the system status looks at the voltages only
OverallStatus_VoltageOnly(all_results, per_link, hubs) ==
    LET min_voltage_overall ==
            RMinSeq([k \in 1..Len(all_results) |-> all_results[k].RemainingVoltage])
        low == VoltageBelowMinimum(min_voltage_overall)
    IN  [total_current_A |->
             RDiv(FromInt(SumSeq([k \in 1..Len(hubs) |-> hubs[k].current_mA])),
                  FromInt(1000)),
         min_voltage_overall |-> min_voltage_overall,
         max_drop_percent |->
             RMaxSeq([k \in 1..Len(all_results) |-> all_results[k].PercentDVoltage]),
         max_drop_mV |->
             RMaxSeq([k \in 1..Len(all_results) |-> all_results[k].CumulativeDVoltage]),
         link_currents |->
             [k \in 1..Len(per_link) |->
                 [link_id |-> per_link[k].link_id,
                  link_current |-> LinkCurrent(per_link[k].rows)]],
         overall_status_color |-> IF low THEN "red" ELSE "green",
         overall_status_message |-> IF low THEN "Voltage issues detected!"
                                    ELSE "All Systems OK"]

OverallStatus(all_results, per_link, hubs) ==
    LET min_voltage_overall ==
            RMinSeq([k \in 1..Len(all_results) |-> all_results[k].RemainingVoltage])
        link_currents ==
            [k \in 1..Len(per_link) |->
                [link_id |-> per_link[k].link_id,
                 link_current |-> LinkCurrent(per_link[k].rows)]]
        low == VoltageBelowMinimum(min_voltage_overall)
        high == \E k \in 1..Len(link_currents) :
                    CurrentExceedsMaximum(link_currents[k].link_current)
    IN  [total_current_A |->
             RDiv(FromInt(SumSeq([k \in 1..Len(hubs) |-> hubs[k].current_mA])),
                  FromInt(1000)),
         min_voltage_overall |-> min_voltage_overall,
         max_drop_percent |->
             RMaxSeq([k \in 1..Len(all_results) |-> all_results[k].PercentDVoltage]),
         max_drop_mV |->
             RMaxSeq([k \in 1..Len(all_results) |-> all_results[k].CumulativeDVoltage]),
         link_currents |-> link_currents,
         overall_status_color |-> IF low \/ high THEN "red" ELSE "green",
         overall_status_message |-> IF high THEN "Current limit exceeded!"
                                    ELSE IF low THEN "Voltage issues detected!"
                                    ELSE "All Systems OK"]

----------------------------------------------------------------------------
(* main.py, the single-chain variant                                       *)

leitfaehigkeit_kupfer == 56
anschluesse_pro_hub == 4 * 2
max_erlaubter_spannungsabfall == FromInt(2)

\* the slots of one hub (4 channels of 2 connections) from slot s on: the
\* hub current and the anode counter after them
RECURSIVE BelegeAnschluesse(_, _, _, _)
BelegeAnschluesse(hub_index, s, hub_strom, counter) ==
    IF s > anschluesse_pro_hub THEN <<hub_strom, counter>>
    ELSE IF counter <= anoden_total
         THEN BelegeAnschluesse(hub_index, s + 1,
                                hub_strom + anschluss_widget[hub_index][s],
                                counter + 1)
         ELSE BelegeAnschluesse(hub_index, s + 1, hub_strom, counter)

Leitungswiderstand(laenge, querschnitt) ==
    RDiv(RMul(FromInt(2), laenge), RMul(FromInt(leitfaehigkeit_kupfer), querschnitt))

----------------------------------------------------------------------------
(* The widget values a run starts from                                     *)

MaxAnodes == 24
MaxHubs == 3

\* number of anode widgets of hub i when it is configured manually
AnodeWidgets(anodes, i) == Min2(ANODES_PER_HUB, anodes - ANODES_PER_HUB * i)

\* manual anode currents of a hub with k anode widgets: the first anode
\* p[1], every other anode p[2]
ManualPattern(k, p) == [a \in 1..k |-> IF a = 1 THEN p[1] ELSE p[2]]

\* what one hub's expander holds: its distance, and its anodes at the
\* standard current or set by hand
StandardHub == [distance |-> DEFAULT_DISTANCE, manual |-> FALSE, pair |-> <<0, 0>>]
ZeroLengthHub == [distance |-> FromInt(0), manual |-> FALSE, pair |-> <<0, 0>>]
ZeroCurrentHub == [distance |-> DEFAULT_DISTANCE, manual |-> TRUE, pair |-> <<0, 0>>]
\* the keys f"input_len_{link_id}" the run renders
LinkLengthKeys(n, selected) ==
    IF LinkStartsValid(selected)
    THEN LET a == AssignLinks(n, selected) IN {a[k] : k \in 1..n}
    ELSE {}

Main2Init(Anodes, Cpas, Areas, Refs, MinVs, MaxCs, HubVariants, Lens) ==
    /\ total_anodes \in Anodes
    /\ current_per_anode \in Cpas
    /\ cable_area \in Areas
    /\ reference_voltage \in Refs
    /\ min_voltage \in MinVs
    /\ max_link_current \in MaxCs
    /\ selected_link_starts \in
           SUBSET {HubName(i) : i \in 0..(NumHubs(total_anodes) - 1)}
    /\ \E opt \in [0..(NumHubs(total_anodes) - 1) -> HubVariants] :
           /\ dist_widget = [i \in DOMAIN opt |-> opt[i].distance]
           /\ manual_widget = [i \in DOMAIN opt |-> opt[i].manual]
           /\ curr_widget =
                  [i \in DOMAIN opt |->
                      IF opt[i].manual
                      THEN ManualPattern(AnodeWidgets(total_anodes, i), opt[i].pair)
                      ELSE <<>>]
    /\ input_len_widget \in
           [LinkLengthKeys(NumHubs(total_anodes), selected_link_starts) -> Lens]
    /\ pc = "start"
    /\ num_hubs = 0
    /\ link_assignments = <<>>
    /\ hub_data = <<>>
    /\ remaining_anodes = 0
    /\ anode_currents = <<>>
    /\ link_groups = <<>>
    /\ link_input_length = <<>>
    /\ results = <<>>
    /\ link_results = <<>>
    /\ cumulative_drop_mV = FromInt(0)
    /\ voltage_values = <<>>
    /\ voltage_drop_mV_values = <<>>
    /\ percent_values = <<>>
    /\ link_status = <<>>
    /\ overall_status = <<>>

\* main.py: every anode of hub h draws values[h]
MainInit(Totals, Querschnitte, Werte, Distanzen) ==
    /\ anoden_total \in Totals
    /\ leitung_querschnitt \in Querschnitte
    /\ \E werte \in [1..CeilDiv(anoden_total, anschluesse_pro_hub) -> Werte] :
           anschluss_widget =
               [h \in DOMAIN werte |-> [slot \in 1..anschluesse_pro_hub |-> werte[h]]]
    /\ distanz_widget \in
           [1..CeilDiv(anoden_total, anschluesse_pro_hub) -> Distanzen]
    /\ m_pc = "start"
    /\ anzahl_hubs = 0
    /\ anoden_counter = 0
    /\ hub_stroeme = <<>>
    /\ hub_distanzen = <<>>
    /\ cumulative_current = 0
    /\ cumulative_voltage = FromInt(0)
    /\ leitungswiderstaende = <<>>
    /\ spannungsabfall_liste = <<>>
    /\ spannung_kumuliert_liste = <<>>
    /\ spannungsabfall_mV = <<>>
    /\ spannungsabfall_prozent = <<>>
    /\ warnung = <<>>

\* the single-chain variant with one standard hub, where main2.py is studied
MainIdle ==
    MainInit({anschluesse_pro_hub}, {DEFAULT_CABLE_AREA}, {MAX_ANODE_CURRENT},
             {DEFAULT_DISTANCE})

\* up to MaxHubs fully populated hubs
HubAnodeCounts == {ANODES_PER_HUB * h : h \in 1..MaxHubs}

\* propagation: hub currents, hub distances and link cable lengths vary
\* (a hub is standard, 0 m from the previous unit, or draws no current;
\* a link's cable to its first hub is 10 m or 0 m long)
Init ==
    /\ Main2Init(HubAnodeCounts, {DEFAULT_CURRENT_PER_ANODE},
                 {DEFAULT_CABLE_AREA}, {LINK_VOLTAGE}, {DEFAULT_MIN_VOLTAGE},
                 {DEFAULT_MAX_LINK_CURRENT},
                 {StandardHub, ZeroLengthHub, ZeroCurrentHub},
                 {FromInt(0), DEFAULT_DISTANCE})
    /\ MainIdle

\* topology: every anode count and every choice of link starts, and the
\* same anode count given to the single-chain variant
InitTopology ==
    /\ Main2Init(1..MaxAnodes, {DEFAULT_CURRENT_PER_ANODE}, {DEFAULT_CABLE_AREA},
                 {LINK_VOLTAGE}, {DEFAULT_MIN_VOLTAGE},
                 {DEFAULT_MAX_LINK_CURRENT}, {StandardHub}, {DEFAULT_DISTANCE})
    /\ MainInit({total_anodes}, {DEFAULT_CABLE_AREA}, {MAX_ANODE_CURRENT},
                {DEFAULT_DISTANCE})

\* constraint evaluation: the thresholds vary, on and around the values the
\* chains reach (47.78125 V, reported as 47.78 V, after one 10 m segment at
\* 5 A; 5 A and 10 A links)
InitStatus ==
    /\ Main2Init(HubAnodeCounts, {DEFAULT_CURRENT_PER_ANODE},
                 {DEFAULT_CABLE_AREA}, {LINK_VOLTAGE},
                 {DEFAULT_MIN_VOLTAGE, Rat(4778, 100), Rat(47781, 1000), Rat(95, 2)},
                 {DEFAULT_MAX_LINK_CURRENT, FromInt(5)},
                 {StandardHub, ZeroCurrentHub},
                 {FromInt(0), DEFAULT_DISTANCE})
    /\ MainIdle


\* percentages: the reference voltage is the source voltage or half of it
InitReference ==
    /\ Main2Init(HubAnodeCounts, {DEFAULT_CURRENT_PER_ANODE},
                 {DEFAULT_CABLE_AREA}, {LINK_VOLTAGE, FromInt(24)},
                 {DEFAULT_MIN_VOLTAGE}, {DEFAULT_MAX_LINK_CURRENT},
                 {StandardHub, ZeroCurrentHub},
                 {FromInt(0), DEFAULT_DISTANCE})
    /\ MainIdle

----------------------------------------------------------------------------
(* The sections of the script                                              *)

ComputeHubCount ==
    /\ pc = "start"
    /\ num_hubs' = NumHubs(total_anodes)
    /\ pc' = "structure"
    /\ UNCHANGED <<inputs, main_vars, link_assignments, hub_data, remaining_anodes,
                   anode_currents, link_groups, link_input_length, results,
                   link_results, cumulative_drop_mV, voltage_values,
                   voltage_drop_mV_values, percent_values, link_status,
                   overall_status>>

\* st.error(...); st.stop()
RejectLinkStarts ==
    /\ pc = "structure"
    /\ ~LinkStartsValid(selected_link_starts)
    /\ pc' = "stopped"
    /\ UNCHANGED <<inputs, main_vars, num_hubs, link_assignments, hub_data,
                   remaining_anodes, anode_currents, link_groups,
                   link_input_length, results, link_results,
                   cumulative_drop_mV, voltage_values, voltage_drop_mV_values,
                   percent_values, link_status, overall_status>>

AssignLinkIds ==
    /\ pc = "structure"
    /\ LinkStartsValid(selected_link_starts)
    /\ link_assignments' = AssignLinks(num_hubs, selected_link_starts)
    /\ remaining_anodes' = total_anodes
    /\ pc' = "hubs"
    /\ UNCHANGED <<inputs, main_vars, num_hubs, hub_data, anode_currents, link_groups,
                   link_input_length, results, link_results,
                   cumulative_drop_mV, voltage_values, voltage_drop_mV_values,
                   percent_values, link_status, overall_status>>

\* one iteration of "for i in range(num_hubs)"
ConfigureHub ==
    /\ pc = "hubs"
    /\ LET i == Len(hub_data)
           anodes_here == AnodesHere(remaining_anodes)
           currents == AnodeCurrents(i, anodes_here)
       IN  /\ anode_currents' = currents
           /\ hub_data' = Append(hub_data,
                  [hub_name |-> HubName(i),
                   link_id |-> link_assignments[i + 1],
                   distance |-> dist_widget[i],
                   current_mA |-> SumSeq(currents)])
           /\ remaining_anodes' = remaining_anodes - anodes_here
           /\ pc' = IF i + 1 = num_hubs THEN "links" ELSE "hubs"
    /\ UNCHANGED <<inputs, main_vars, num_hubs, link_assignments, link_groups,
                   link_input_length, results, link_results,
                   cumulative_drop_mV, voltage_values, voltage_drop_mV_values,
                   percent_values, link_status, overall_status>>

LinkParameters ==
    /\ pc = "links"
    /\ link_groups' = GroupHubs(<<>>, hub_data)
    /\ link_input_length' =
           [l \in LinkIds(GroupHubs(<<>>, hub_data)) |-> input_len_widget[l]]
    /\ pc' = "calculate"
    /\ UNCHANGED <<inputs, main_vars, num_hubs, link_assignments, hub_data,
                   remaining_anodes, anode_currents, results, link_results,
                   cumulative_drop_mV, voltage_values, voltage_drop_mV_values,
                   percent_values, link_status, overall_status>>

\* "for link_id, hubs in link_groups.items()": the next link's source segment
StartLink ==
    /\ pc = "calculate"
    /\ LET g == link_groups[Len(link_results) + 1]
           s == SourceSegment(g.link_id, g.hubs, link_input_length[g.link_id])
       IN  /\ results' = Append(results, s.row)
           /\ link_results' =
                  Append(link_results, [link_id |-> g.link_id, rows |-> <<s.row>>])
           /\ cumulative_drop_mV' = s.cum
           /\ voltage_values' = <<LINK_VOLTAGE, s.remaining>>
           /\ voltage_drop_mV_values' = <<FromInt(0), s.cum>>
           /\ percent_values' = <<FromInt(0), s.percent>>
           /\ pc' = IF Len(g.hubs) > 1 THEN "segments"
                    ELSE IF Len(link_results) + 1 = Len(link_groups)
                         THEN "analyze" ELSE "calculate"
    /\ UNCHANGED <<inputs, main_vars, num_hubs, link_assignments, hub_data,
                   remaining_anodes, anode_currents, link_groups,
                   link_input_length, link_status, overall_status>>

\* one iteration with i > 0 of "for i in range(len(hubs))"
HubToHub ==
    /\ pc = "segments"
    /\ LET k == Len(link_results)
           g == link_groups[k]
           i == Len(link_results[k].rows)
           s == HubSegment(g.link_id, g.hubs, i, cumulative_drop_mV)
       IN  /\ results' = Append(results, s.row)
           /\ link_results' = [link_results EXCEPT ![k].rows = Append(@, s.row)]
           /\ cumulative_drop_mV' = s.cum
           /\ voltage_values' = Append(voltage_values, s.remaining)
           /\ voltage_drop_mV_values' = Append(voltage_drop_mV_values, s.cum)
           /\ percent_values' = Append(percent_values, s.percent)
           /\ pc' = IF i + 1 < Len(g.hubs) THEN "segments"
                    ELSE IF k = Len(link_groups) THEN "analyze" ELSE "calculate"
    /\ UNCHANGED <<inputs, main_vars, num_hubs, link_assignments, hub_data,
                   remaining_anodes, anode_currents, link_groups,
                   link_input_length, link_status, overall_status>>

\* one iteration of "for link_id, link_data in link_results.items()"
AnalyzeLink ==
    /\ pc = "analyze"
    /\ LET k == Len(link_status) + 1
       IN  /\ link_status' = Append(link_status,
                  LinkStatus(link_results[k].link_id, link_results[k].rows))
           /\ pc' = IF k = Len(link_results) THEN "overview" ELSE "analyze"
    /\ UNCHANGED <<inputs, main_vars, num_hubs, link_assignments, hub_data,
                   remaining_anodes, anode_currents, link_groups,
                   link_input_length, results, link_results,
                   cumulative_drop_mV, voltage_values, voltage_drop_mV_values,
                   percent_values, overall_status>>

CompleteSystemOverview ==
    /\ pc = "overview"
    /\ overall_status' = <<OverallStatus(results, link_results, hub_data)>>
    /\ pc' = "done"
    /\ UNCHANGED <<inputs, main_vars, num_hubs, link_assignments, hub_data,
                   remaining_anodes, anode_currents, link_groups,
                   link_input_length, results, link_results,
                   cumulative_drop_mV, voltage_values, voltage_drop_mV_values,
                   percent_values, link_status>>

----------------------------------------------------------------------------
(* The sections of main.py                                                 *)

M_ComputeHubCount ==
    /\ m_pc = "start"
    /\ anzahl_hubs' = CeilDiv(anoden_total, anschluesse_pro_hub)
    /\ anoden_counter' = 1
    /\ m_pc' = "hubs"
    /\ UNCHANGED <<main2_vars, main_inputs, hub_stroeme, hub_distanzen,
                   cumulative_current, cumulative_voltage, leitungswiderstaende,
                   spannungsabfall_liste, spannung_kumuliert_liste,
                   spannungsabfall_mV, spannungsabfall_prozent, warnung>>

\* one iteration of "for hub_index in range(1, anzahl_hubs + 1)"
M_ConfigureHub ==
    /\ m_pc = "hubs"
    /\ LET hub_index == Len(hub_stroeme) + 1
           belegt == BelegeAnschluesse(hub_index, 1, 0, anoden_counter)
       IN  /\ hub_stroeme' = Append(hub_stroeme, belegt[1])
           /\ anoden_counter' = belegt[2]
           /\ hub_distanzen' = Append(hub_distanzen, distanz_widget[hub_index])
           /\ m_pc' = IF hub_index = anzahl_hubs THEN "berechnung" ELSE "hubs"
    /\ UNCHANGED <<main2_vars, main_inputs, anzahl_hubs, cumulative_current,
                   cumulative_voltage, leitungswiderstaende,
                   spannungsabfall_liste, spannung_kumuliert_liste,
                   spannungsabfall_mV, spannungsabfall_prozent, warnung>>

\* one iteration of "for i in range(anzahl_hubs)"
M_Berechnung ==
    /\ m_pc = "berechnung"
    /\ LET i == Len(leitungswiderstaende)
           strom_A == RDiv(FromInt(cumulative_current + hub_stroeme[i + 1]),
                           FromInt(1000))
           laenge == hub_distanzen[i + 1]
           leitungswiderstand ==
               IF i = 0 THEN FromInt(0)
               ELSE Leitungswiderstand(laenge, leitung_querschnitt)
           spannungsabfall ==
               IF i = 0 THEN FromInt(0) ELSE RMul(leitungswiderstand, strom_A)
           kumuliert == RAdd(cumulative_voltage, spannungsabfall)
       IN  /\ cumulative_current' = cumulative_current + hub_stroeme[i + 1]
           /\ cumulative_voltage' = kumuliert
           /\ leitungswiderstaende' = Append(leitungswiderstaende, leitungswiderstand)
           /\ spannungsabfall_liste' = Append(spannungsabfall_liste, spannungsabfall)
           /\ spannung_kumuliert_liste' = Append(spannung_kumuliert_liste, kumuliert)
           /\ spannungsabfall_mV' =
                  Append(spannungsabfall_mV, RMul(kumuliert, FromInt(1000)))
           /\ spannungsabfall_prozent' =
                  Append(spannungsabfall_prozent,
                         RMul(RDiv(kumuliert, max_erlaubter_spannungsabfall),
                              FromInt(100)))
           /\ m_pc' = IF i + 1 = anzahl_hubs THEN "warnung" ELSE "berechnung"
    /\ UNCHANGED <<main2_vars, main_inputs, anzahl_hubs, anoden_counter,
                   hub_stroeme, hub_distanzen, warnung>>

M_Warnung ==
    /\ m_pc = "warnung"
    /\ warnung' = <<RLt(max_erlaubter_spannungsabfall, cumulative_voltage)>>
    /\ m_pc' = "done"
    /\ UNCHANGED <<main2_vars, main_inputs, anzahl_hubs, anoden_counter,
                   hub_stroeme, hub_distanzen, cumulative_current,
                   cumulative_voltage, leitungswiderstaende,
                   spannungsabfall_liste, spannung_kumuliert_liste,
                   spannungsabfall_mV, spannungsabfall_prozent>>

MainNext ==
    \/ M_ComputeHubCount
    \/ M_ConfigureHub
    \/ M_Berechnung
    \/ M_Warnung

Next ==
    \/ ComputeHubCount
    \/ RejectLinkStarts
    \/ AssignLinkIds
    \/ ConfigureHub
    \/ LinkParameters
    \/ StartLink
    \/ HubToHub
    \/ AnalyzeLink
    \/ CompleteSystemOverview

Spec == Init /\ [][Next]_vars

\* both variants run on the same anode count
NextTopology == Next \/ MainNext

SpecTopology == InitTopology /\ [][NextTopology]_vars

SpecStatus == InitStatus /\ [][Next]_vars


SpecReference == InitReference /\ [][Next]_vars

----------------------------------------------------------------------------
(* Properties: topology (checked under SpecTopology)                       *)

\* C1: when "APWRHUB 1" is not among the declared link starts, the run
\* stops at the validation: no link is assigned, no hub is configured, no
\* result record exists and no per-link or system status is derived.
NoRecordsOnInvalidStarts ==
    (HubName(0) \notin selected_link_starts) =>
        /\ pc \in {"start", "structure", "stopped"}
        /\ link_assignments = <<>>
        /\ hub_data = <<>>
        /\ link_groups = <<>>
        /\ results = <<>>
        /\ link_results = <<>>
        /\ link_status = <<>>
        /\ overall_status = <<>>

\* C1 witness: a run of three hubs with other starts declared, stopped
StoppedOnInvalidStarts ==
    /\ pc = "stopped"
    /\ num_hubs = 3
    /\ selected_link_starts = {HubName(1), HubName(2)}

LinkNumber(link_id) == link_id[2]

RECURSIVE ConcatHubs(_)
ConcatHubs(groups) ==
    IF groups = <<>> THEN <<>>
    ELSE Head(groups).hubs \o ConcatHubs(Tail(groups))

\* C2: the link assignment is a contiguous, exhaustive partition: hub 1 is
\* in link 1, hub i > 1 is in the link of hub i-1 unless it is a declared
\* start, and then in the next link; the groups are non-empty, numbered
\* 1..k in hub order, hold only their own hubs, and laid end to end they
\* are the hub sequence.
LinkPartition ==
    /\ pc \notin {"start", "structure", "stopped"} =>
           /\ Len(link_assignments) = num_hubs
           /\ link_assignments[1] = LinkName(1)
           /\ \A i \in 1..(num_hubs - 1) :
                  LinkNumber(link_assignments[i + 1]) =
                      LinkNumber(link_assignments[i]) +
                          (IF HubName(i) \in selected_link_starts THEN 1 ELSE 0)
           /\ \A j \in 1..Len(hub_data) :
                  /\ hub_data[j].hub_name = HubName(j - 1)
                  /\ hub_data[j].link_id = link_assignments[j]
    /\ pc \in {"calculate", "segments", "analyze", "overview", "done"} =>
           /\ ConcatHubs(link_groups) = hub_data
           /\ \A k \in 1..Len(link_groups) :
                  /\ link_groups[k].hubs # <<>>
                  /\ link_groups[k].link_id = LinkName(k)
                  /\ \A j \in 1..Len(link_groups[k].hubs) :
                         link_groups[k].hubs[j].link_id = LinkName(k)
           /\ DOMAIN link_input_length = {LinkName(k) : k \in 1..Len(link_groups)}

\* C2 witness: starts {hub 1, hub 3} of three hubs give hubs 1-2 in link 1
\* and hub 3 in link 2
TwoLinksOfThreeHubs ==
    /\ pc = "calculate"
    /\ selected_link_starts = {HubName(0), HubName(2)}
    /\ Len(link_groups) = 2
    /\ [j \in 1..Len(link_groups[1].hubs) |-> link_groups[1].hubs[j].hub_name]
           = <<HubName(0), HubName(1)>>
    /\ [j \in 1..Len(link_groups[2].hubs) |-> link_groups[2].hubs[j].hub_name]
           = <<HubName(2)>>

\* anodes of hub j (1-based) of n hubs serving `anodes` anodes, 8 per hub
ExpectedAnodes(anodes, n, j) == IF j < n THEN 8 ELSE anodes - 8 * (n - 1)

\* C3: the hub count is ceil(total_anodes / 8): the least n with 8n >= total;
\* every hub but the last holds 8 anodes, the last holds total - 8(n-1),
\* a value in 1..8, and the counts sum to the total.  In main2.py and in
\* main.py alike (every anode drawing the same current here, a hub's
\* current counts its anodes).
HubCountAndAnodes ==
    /\ pc # "start" => /\ 8 * num_hubs >= total_anodes
                       /\ 8 * (num_hubs - 1) < total_anodes
    /\ \A j \in 1..Len(hub_data) :
           /\ ExpectedAnodes(total_anodes, num_hubs, j) \in 1..8
           /\ ~manual_widget[j - 1] =>
                  hub_data[j].current_mA =
                      current_per_anode * ExpectedAnodes(total_anodes, num_hubs, j)
    /\ Len(hub_data) >= 1 =>
           /\ Len(anode_currents) =
                  ExpectedAnodes(total_anodes, num_hubs, Len(hub_data))
           /\ remaining_anodes =
                  IF Len(hub_data) < num_hubs
                  THEN total_anodes - 8 * Len(hub_data) ELSE 0
    /\ m_pc # "start" => /\ 8 * anzahl_hubs >= anoden_total
                         /\ 8 * (anzahl_hubs - 1) < anoden_total
    /\ \A j \in 1..Len(hub_stroeme) :
           hub_stroeme[j] =
               anschluss_widget[j][1] * ExpectedAnodes(anoden_total, anzahl_hubs, j)
    /\ m_pc \in {"berechnung", "warnung", "done"} =>
           anoden_counter = anoden_total + 1

\* C3 witness: 20 anodes give 3 hubs, the last with 4 anodes, in both variants
TwentyAnodesShortLastHub ==
    /\ total_anodes = 20
    /\ pc = "links"
    /\ num_hubs = 3
    /\ Len(anode_currents) = 4
    /\ m_pc = "berechnung"
    /\ anzahl_hubs = 3
    /\ hub_stroeme[3] = 4 * MAX_ANODE_CURRENT

----------------------------------------------------------------------------
(* Properties: propagation (checked under Spec)                            *)

\* the hubs of hub_data that carry this link id, in hub order
LinkHubs(link) == SelectSeq(hub_data, LAMBDA h : h.link_id = link)

\* sum of the aggregated currents [mA] of hubs r..end of a hub list
LoadFrom(hubs, r) ==
    SumSeq([j \in 1..(Len(hubs) - r + 1) |-> hubs[j + r - 1].current_mA])

RowsOf(k) == link_results[k].rows

\* C4: the record of segment r of a link ends at the r-th hub of that link
\* and its current is the sum of the currents of hubs r..end of that link
\* alone: segment 0 carries the whole link, the last segment the last hub.
SegmentCurrentIsDownstreamLoad ==
    \A k \in 1..Len(link_results) :
        LET hubs == LinkHubs(link_results[k].link_id)
        IN  /\ Len(RowsOf(k)) <= Len(hubs)
            /\ (k < Len(link_results) \/ pc \in {"analyze", "overview", "done"})
                   => Len(RowsOf(k)) = Len(hubs)
            /\ \A r \in 1..Len(RowsOf(k)) :
                   /\ RowsOf(k)[r].APWRLINK = link_results[k].link_id
                   /\ RowsOf(k)[r].To = hubs[r].hub_name
                   /\ RMul(RowsOf(k)[r].Current, FromInt(1000))
                          = FromInt(LoadFrom(hubs, r))

\* C4 witness: three standard hubs, link 1 = hubs 1-2, link 2 = hub 3: the
\* segments carry 10 A, 5 A and (link 2, from its source) 5 A
TwoLinksCurrents ==
    /\ pc = "done"
    /\ Len(results) = 3
    /\ results[1].Current = FromInt(10)
    /\ results[2].Current = FromInt(5)
    /\ results[2].APWRLINK = LinkName(1)
    /\ results[3].Current = FromInt(5)
    /\ results[3].APWRLINK = LinkName(2)
    /\ results[3].From = SourceNode

\* C5: along a link the Current field never grows from one record to the
\* next.
CurrentNonIncreasing ==
    \A k \in 1..Len(link_results) :
        \A r \in 1..(Len(RowsOf(k)) - 1) :
            RLe(RowsOf(k)[r + 1].Current, RowsOf(k)[r].Current)

\* C5 witness: a link of three hubs whose currents fall, then stay
CurrentFallsThenStays ==
    \E k \in 1..Len(link_results) :
        /\ Len(RowsOf(k)) = 3
        /\ RLt(RowsOf(k)[2].Current, RowsOf(k)[1].Current)
        /\ RowsOf(k)[3].Current = RowsOf(k)[2].Current

\* C6: along a link the cumulative-drop field never falls and the
\* remaining-voltage field never grows from one record to the next.
DropMonotoneAlongLink ==
    \A k \in 1..Len(link_results) :
        \A r \in 1..(Len(RowsOf(k)) - 1) :
            /\ RLe(RowsOf(k)[r].CumulativeDVoltage, RowsOf(k)[r + 1].CumulativeDVoltage)
            /\ RLe(RowsOf(k)[r + 1].RemainingVoltage, RowsOf(k)[r].RemainingVoltage)

\* C6 witness: a link of three hubs whose drop grows, then stays
DropGrowsThenStays ==
    \E k \in 1..Len(link_results) :
        /\ Len(RowsOf(k)) = 3
        /\ RLt(RowsOf(k)[1].CumulativeDVoltage, RowsOf(k)[2].CumulativeDVoltage)
        /\ RLt(RowsOf(k)[2].RemainingVoltage, RowsOf(k)[1].RemainingVoltage)
        /\ RowsOf(k)[3].CumulativeDVoltage = RowsOf(k)[2].CumulativeDVoltage

RAbs(a) == <<Abs(a[1]), a[2]>>

\* q has at most k decimals
HasDecimals(q, k) == RMul(q, FromInt(Pow10(k)))[2] = 1

\* the two fields of one record, taken at their word
RemainingFromCumulativeField(row) ==
    RSub(FromInt(48), RDiv(row.CumulativeDVoltage, FromInt(1000)))

\* C7 as stated: in every record the remaining-voltage field equals 48 V
\* minus the record's own cumulative-drop field converted from mV to V.
RemainingFieldEqualsCumulativeField ==
    \A j \in 1..Len(results) :
        results[j].RemainingVoltage = RemainingFromCumulativeField(results[j])

\* C7 as amended: the remaining voltage is 48 V minus the unrounded
\* accumulator (mV to V); the record holds it rounded to 2 decimals of a
\* volt and the accumulator rounded to 2 decimals of a millivolt, so the two
\* fields agree to within 0.005005 V.  (The unrounded values are those of
\* the link being walked: voltage_values, voltage_drop_mV_values.)
RemainingFieldWithinRounding ==
    /\ \A j \in 1..Len(results) :
           /\ HasDecimals(results[j].RemainingVoltage, 2)
           /\ HasDecimals(results[j].CumulativeDVoltage, 2)
           /\ RLe(RAbs(RSub(results[j].RemainingVoltage,
                            RemainingFromCumulativeField(results[j]))),
                  Rat(5005, 1000000))
    /\ pc \in {"calculate", "segments", "analyze", "overview", "done"}
       /\ link_results # <<>> =>
           LET rows == RowsOf(Len(link_results))
           IN  /\ Len(voltage_values) = Len(rows) + 1
               /\ Len(voltage_drop_mV_values) = Len(rows) + 1
               /\ \A r \in 1..Len(rows) :
                      /\ voltage_values[r + 1] =
                             RSub(FromInt(48),
                                  RDiv(voltage_drop_mV_values[r + 1], FromInt(1000)))
                      /\ RLe(RAbs(RSub(rows[r].RemainingVoltage,
                                       voltage_values[r + 1])), Rat(1, 200))
                      /\ RLe(RAbs(RSub(rows[r].CumulativeDVoltage,
                                       voltage_drop_mV_values[r + 1])), Rat(1, 200))

\* C7 witness: a record of 218.75 mV and 47.78 V (48 - 0.21875 = 47.78125)
RemainingFieldRounded ==
    \E j \in 1..Len(results) :
        /\ results[j].CumulativeDVoltage = Rat(21875, 100)
        /\ results[j].RemainingVoltage = Rat(4778, 100)

\* C8: a segment of length 0 has resistance 0 and drop 0 whatever its
\* current, a segment whose downstream load is 0 has drop 0 whatever its
\* length, and in both cases the cumulative drop is that of the previous
\* segment (0 at the source), in the record and in the accumulator.
ZeroSegmentDropsNothing ==
    \A k \in 1..Len(link_results) :
        \A r \in 1..Len(RowsOf(k)) :
            LET row == RowsOf(k)[r]
                before == IF r = 1 THEN FromInt(0)
                          ELSE RowsOf(k)[r - 1].CumulativeDVoltage
                nothing ==
                    \/ row.Distance = FromInt(0)
                    \/ LoadFrom(LinkHubs(link_results[k].link_id), r) = 0
            IN  /\ row.Distance = FromInt(0) => row.Resistance = FromInt(0)
                /\ nothing => /\ row.dVoltage = FromInt(0)
                              /\ row.CumulativeDVoltage = before
                /\ (nothing /\ k = Len(link_results)) =>
                       voltage_drop_mV_values[r + 1] = voltage_drop_mV_values[r]

\* C8 witness: a link whose second segment is 0 m long and carries 5 A and
\* whose third is 10 m long and carries nothing, after a first that drops
ZeroLengthThenZeroCurrent ==
    \E k \in 1..Len(link_results) :
        /\ Len(RowsOf(k)) = 3
        /\ RLt(FromInt(0), RowsOf(k)[1].CumulativeDVoltage)
        /\ RowsOf(k)[2].Distance = FromInt(0)
        /\ RowsOf(k)[2].Current = FromInt(5)
        /\ RowsOf(k)[3].Distance = FromInt(10)
        /\ RowsOf(k)[3].Current = FromInt(0)
        /\ RowsOf(k)[3].CumulativeDVoltage = RowsOf(k)[1].CumulativeDVoltage

\* a run of one hub: its source cable, area and hub current, and the
\* resistance [Ohm] and drop [mV] they give
OneHubRun == num_hubs = 1 /\ Len(results) = 1
OneHubResistance ==
    RDiv(RMul(Rat(175, 10000), link_input_length[LinkName(1)]), cable_area)
OneHubDrop_mV ==
    RMul(RMul(Rat(hub_data[1].current_mA, 1000), OneHubResistance), FromInt(1000))
SpecExampleRun ==
    /\ OneHubRun
    /\ link_input_length[LinkName(1)] = FromInt(10)
    /\ cable_area = FromInt(4)
    /\ hub_data[1].current_mA = 8 * 625

\* C9 as stated: the one record of a single link with a single hub reports
\* R = 0.0175 L / A, drop = I R and remaining = 48 - drop; for 10 m, 4 mm2
\* and 8 x 625 mA: 0.04375 Ohm, 218.75 mV, 47.78125 V.
OneHubRecordUnrounded ==
    /\ OneHubRun =>
           /\ results[1].Resistance = OneHubResistance
           /\ results[1].dVoltage = OneHubDrop_mV
           /\ results[1].RemainingVoltage =
                  RSub(FromInt(48), RDiv(OneHubDrop_mV, FromInt(1000)))
    /\ SpecExampleRun =>
           /\ results[1].Resistance = Rat(4375, 100000)
           /\ results[1].dVoltage = Rat(21875, 100)
           /\ results[1].RemainingVoltage = Rat(4778125, 100000)

\* C9 as amended: the record reports these values rounded (resistance to 4
\* decimals, drop and remaining voltage to 2): for 10 m, 4 mm2 and
\* 8 x 625 mA it reports 0.0438 Ohm, 218.75 mV and 47.78 V; the unrounded
\* remaining voltage 47.78125 V is the plotted value.
OneHubRecordRounded ==
    /\ OneHubRun =>
           /\ HasDecimals(results[1].Resistance, 4)
           /\ RLe(RAbs(RSub(results[1].Resistance, OneHubResistance)),
                  Rat(1, 20000))
           /\ HasDecimals(results[1].dVoltage, 2)
           /\ RLe(RAbs(RSub(results[1].dVoltage, OneHubDrop_mV)), Rat(1, 200))
           /\ HasDecimals(results[1].RemainingVoltage, 2)
           /\ RLe(RAbs(RSub(results[1].RemainingVoltage,
                            RSub(FromInt(48), RDiv(OneHubDrop_mV, FromInt(1000))))),
                  Rat(1, 200))
           /\ voltage_drop_mV_values = <<FromInt(0), OneHubDrop_mV>>
           /\ voltage_values =
                  <<FromInt(48), RSub(FromInt(48), RDiv(OneHubDrop_mV, FromInt(1000)))>>
    /\ SpecExampleRun =>
           /\ results[1].Resistance = Rat(438, 10000)
           /\ results[1].dVoltage = Rat(21875, 100)
           /\ results[1].RemainingVoltage = Rat(4778, 100)
           /\ voltage_values[2] = Rat(4778125, 100000)

\* C9 witness: the example run, finished
SpecExampleDone == SpecExampleRun /\ pc = "done"

----------------------------------------------------------------------------
(* Properties: constraint evaluation (checked under SpecStatus)            *)

\* C10: a link is red exactly when some record of it has a remaining
\* voltage strictly below min_voltage or its segment-0 current is strictly
\* above max_link_current; otherwise it is green.  Equality is green.
LinkStatusMatchesThresholds ==
    \A k \in 1..Len(link_status) :
        /\ link_status[k].link_id = link_results[k].link_id
        /\ link_status[k].status_color \in {"red", "green"}
        /\ link_status[k].status_color = "red" <=>
               \/ \E r \in 1..Len(RowsOf(k)) :
                      RLt(RowsOf(k)[r].RemainingVoltage, min_voltage)
               \/ RLt(max_link_current, RowsOf(k)[1].Current)

\* C10 witness: a green link whose lowest voltage equals min_voltage and
\* whose current equals max_link_current
GreenOnBothThresholds ==
    \E k \in 1..Len(link_status) :
        /\ link_status[k].status_color = "green"
        /\ RowsOf(k)[1].Current = max_link_current
        /\ \E r \in 1..Len(RowsOf(k)) : RowsOf(k)[r].RemainingVoltage = min_voltage


\* C11: once the overview is computed, the system status is red exactly
\* when at least one link's status is red, and green exactly when every
\* link's status is green.
SystemStatusIsAnyLinkViolation ==
    overall_status # <<>> =>
        /\ Len(link_status) = Len(link_results)
        /\ overall_status[1].overall_status_color \in {"red", "green"}
        /\ overall_status[1].overall_status_color = "red" <=>
               \E k \in 1..Len(link_status) : link_status[k].status_color = "red"
        /\ overall_status[1].overall_status_color = "green" <=>
               \A k \in 1..Len(link_status) : link_status[k].status_color = "green"

\* C11 witness: a red system of one green link and one link that is red for
\* its current alone
OneLinkOverCurrent ==
    /\ overall_status # <<>>
    /\ overall_status[1].overall_status_color = "red"
    /\ \E k \in 1..Len(link_status) : link_status[k].status_color = "green"
    /\ \E k \in 1..Len(link_status) :
           /\ link_status[k].current_error
           /\ ~link_status[k].voltage_error
    /\ \A k \in 1..Len(link_status) : ~link_status[k].voltage_error


\* the records of link k whose remaining voltage is below the minimum, and
\* the j-th of them in chain order
FlaggedRows(k) ==
    {r \in 1..Len(RowsOf(k)) : RLt(RowsOf(k)[r].RemainingVoltage, min_voltage)}
NthFlagged(k, j) ==
    CHOOSE r \in FlaggedRows(k) :
        Cardinality({q \in FlaggedRows(k) : q < r}) = j - 1

\* C12: the violating nodes reported for a link are exactly the "To" nodes,
\* in chain order, of the link's records whose remaining voltage is below
\* min_voltage; the list is reported iff it is not empty, and every node it
\* names is a hub of that link.
ProblemNodesAreFlaggedToNodes ==
    \A k \in 1..Len(link_status) :
        LET nodes == link_status[k].problem_nodes
        IN  /\ Len(nodes) = Cardinality(FlaggedRows(k))
            /\ \A j \in 1..Len(nodes) : nodes[j] = RowsOf(k)[NthFlagged(k, j)].To
            /\ link_status[k].voltage_error <=> nodes # <<>>
            /\ \A j \in 1..Len(nodes) :
                   \E h \in 1..Len(hub_data) :
                       /\ hub_data[h].hub_name = nodes[j]
                       /\ hub_data[h].link_id = link_status[k].link_id

\* C12 witness: a link of three hubs of which the last two are reported and
\* the first is not
LastTwoHubsReported ==
    \E k \in 1..Len(link_status) :
        /\ Len(RowsOf(k)) = 3
        /\ link_status[k].problem_nodes = <<RowsOf(k)[2].To, RowsOf(k)[3].To>>


----------------------------------------------------------------------------
(* Properties: links and records (checked under Spec)                      *)

\* link k has been walked to its last hub
LinkComplete(k) == k < Len(link_results) \/ pc # "segments"

\* C13: the records of a link are those computed from that link's own hubs,
\* its own cable length to the first hub and the shared parameters alone,
\* whatever the other links are and wherever the link stands in the order
\* of processing (while a link is being walked its records are the first of
\* them); its status is the one computed from those records.
LinkDependsOnOwnInputs ==
    /\ \A k \in 1..Len(link_results) :
           LET id == link_results[k].link_id
               own == LinkRecords(id, LinkHubs(id), link_input_length[id])
           IN  /\ Len(RowsOf(k)) <= Len(own)
               /\ RowsOf(k) = SubSeq(own, 1, Len(RowsOf(k)))
               /\ LinkComplete(k) => RowsOf(k) = own
    /\ \A k \in 1..Len(link_status) :
           LET id == link_status[k].link_id
           IN  link_status[k] =
                   LinkStatus(id, LinkRecords(id, LinkHubs(id), link_input_length[id]))

\* C13 witness: a finished run of two links, the first of two hubs dropping
\* 656.25 mV in all, the second of one hub dropping 218.75 mV as it would
\* alone
SecondLinkAsIfAlone ==
    /\ pc = "done"
    /\ Len(link_results) = 2
    /\ Len(RowsOf(1)) = 2
    /\ RowsOf(1)[2].CumulativeDVoltage = Rat(65625, 100)
    /\ Len(RowsOf(2)) = 1
    /\ RowsOf(2)[1].CumulativeDVoltage = Rat(21875, 100)
    /\ link_status[2].link_min_voltage = Rat(4778, 100)


\* the drop [mV] of segment r of a link, from the link's hubs and its cable
\* length L to the first hub: load [A] x 0.0175 x length / area x 1000
SegmentDropOf(hubs, L, r) ==
    RMul(RMul(Rat(LoadFrom(hubs, r), 1000),
              RDiv(RMul(Rat(175, 10000), IF r = 1 THEN L ELSE hubs[r].distance),
                   cable_area)),
         FromInt(1000))

\* the sum of the drops of segments 1..r, and of the drop fields of rows 1..r
RECURSIVE DropsUpTo(_, _, _)
DropsUpTo(hubs, L, r) ==
    IF r = 0 THEN FromInt(0)
    ELSE RAdd(DropsUpTo(hubs, L, r - 1), SegmentDropOf(hubs, L, r))
RECURSIVE DropFieldsUpTo(_, _)
DropFieldsUpTo(rows, r) ==
    IF r = 0 THEN FromInt(0)
    ELSE RAdd(DropFieldsUpTo(rows, r - 1), rows[r].dVoltage)

\* C14: along a link the accumulator after segment r is the sum of the
\* drops of that link's segments up to r, starting from 0 at the link's
\* source: the first record of every link has a cumulative drop equal to
\* its own drop, and every record holds the link's own sum, rounded to 2
\* decimals (so it agrees with the sum of the rounded drop fields to within
\* the roundings).
CumulativeIsSumOfOwnDrops ==
    \A k \in 1..Len(link_results) :
        LET id == link_results[k].link_id
            hubs == LinkHubs(id)
            L == link_input_length[id]
            rows == RowsOf(k)
        IN  /\ rows[1].CumulativeDVoltage = rows[1].dVoltage
            /\ \A r \in 1..Len(rows) :
                   /\ RLe(RAbs(RSub(rows[r].CumulativeDVoltage, DropsUpTo(hubs, L, r))),
                          Rat(1, 200))
                   /\ RLe(RAbs(RSub(rows[r].CumulativeDVoltage, DropFieldsUpTo(rows, r))),
                          Rat(r + 1, 200))
            /\ k = Len(link_results) =>
                   /\ voltage_drop_mV_values[1] = FromInt(0)
                   /\ \A r \in 1..Len(rows) :
                          voltage_drop_mV_values[r + 1] = DropsUpTo(hubs, L, r)
                   /\ cumulative_drop_mV = DropsUpTo(hubs, L, Len(rows))

\* C14 witness: after a first link that dropped 218.75 mV, a second link of
\* two hubs starts at its own 437.5 mV and reaches 656.25 mV
SecondLinkStartsFromZero ==
    /\ Len(link_results) = 2
    /\ RowsOf(1)[Len(RowsOf(1))].CumulativeDVoltage = Rat(21875, 100)
    /\ Len(RowsOf(2)) = 2
    /\ RowsOf(2)[1].dVoltage = Rat(4375, 10)
    /\ RowsOf(2)[1].CumulativeDVoltage = Rat(4375, 10)
    /\ RowsOf(2)[2].dVoltage = Rat(21875, 100)
    /\ RowsOf(2)[2].CumulativeDVoltage = Rat(65625, 100)


----------------------------------------------------------------------------
(* Properties: percentages (checked under SpecReference)                   *)

\* a drop [mV] as a percentage of the configured reference voltage [V]
PercentOfReference(drop_mV) ==
    RDiv(RMul(drop_mV, FromInt(100)), RMul(reference_voltage, FromInt(1000)))

\* C15: the percent drop is the cumulative drop [mV] divided by the
\* configured reference voltage brought to mV (V x 1000), times 100; the
\* record holds it rounded to 2 decimals, next to the cumulative drop
\* rounded to 2 decimals.
PercentIsOfReferenceVoltage ==
    /\ \A j \in 1..Len(results) :
           /\ HasDecimals(results[j].PercentDVoltage, 2)
           /\ RLe(RAbs(RSub(results[j].PercentDVoltage,
                            PercentOfReference(results[j].CumulativeDVoltage))),
                  Rat(55, 10000))
    /\ link_results # <<>> =>
           /\ Len(percent_values) = Len(RowsOf(Len(link_results))) + 1
           /\ percent_values[1] = FromInt(0)
           /\ \A r \in 1..Len(RowsOf(Len(link_results))) :
                  /\ percent_values[r + 1] =
                         PercentOfReference(voltage_drop_mV_values[r + 1])
                  /\ RLe(RAbs(RSub(RowsOf(Len(link_results))[r].PercentDVoltage,
                                   percent_values[r + 1])), Rat(1, 200))

\* C15 witness: with a reference of 24 V, 218.75 mV are reported as 0.91 %
\* (they are 0.46 % of 48 V)
PercentOfHalfSourceVoltage ==
    /\ reference_voltage = FromInt(24)
    /\ \E j \in 1..Len(results) :
           /\ results[j].CumulativeDVoltage = Rat(21875, 100)
           /\ results[j].PercentDVoltage = Rat(91, 100)


----------------------------------------------------------------------------
(* Properties: records (checked under SpecTopology)                        *)

\* the records of links 1..k, one link after the other
RECURSIVE RowsUpTo(_)
RowsUpTo(k) == IF k = 0 THEN <<>> ELSE RowsUpTo(k - 1) \o RowsOf(k)

\* C16: there is one record per segment: a link of n hubs has n records,
\* the first from "APWRLINK" to its first hub, the r-th from its (r-1)-th
\* hub to its r-th; the records are those of the links, so that a finished
\* run has as many records as hubs and every hub is the "To" node of
\* exactly one.
OneRecordPerSegment ==
    /\ \A k \in 1..Len(link_results) :
           LET id == link_results[k].link_id
               hubs == LinkHubs(id)
               rows == RowsOf(k)
           IN  /\ Len(rows) \in 1..Len(hubs)
               /\ LinkComplete(k) => Len(rows) = Len(hubs)
               /\ \A r \in 1..Len(rows) :
                      /\ rows[r].APWRLINK = id
                      /\ rows[r].To = hubs[r].hub_name
                      /\ rows[r].From =
                             IF r = 1 THEN SourceNode ELSE hubs[r - 1].hub_name
    /\ results = RowsUpTo(Len(link_results))
    /\ pc \in {"analyze", "overview", "done"} =>
           /\ Len(results) = num_hubs
           /\ Len(results) = Len(hub_data)
           /\ \A i \in 0..(num_hubs - 1) :
                  Cardinality({j \in 1..Len(results) : results[j].To = HubName(i)}) = 1

\* C16 witness: three hubs, the third starting a second link: three records,
\* from the source, from hub 1 and from the source again
ThreeRecordsOfTwoLinks ==
    /\ pc = "done"
    /\ Len(results) = 3
    /\ [j \in 1..3 |-> results[j].From] = <<SourceNode, HubName(0), SourceNode>>
    /\ [j \in 1..3 |-> results[j].To] = <<HubName(0), HubName(1), HubName(2)>>
    /\ [j \in 1..3 |-> results[j].APWRLINK] = <<LinkName(1), LinkName(1), LinkName(2)>>


----------------------------------------------------------------------------
(* Properties: the single-chain variant main.py (checked under             *)
(* SpecTopology)                                                           *)

\* C17 as stated: the first segment of main.py (APWRLINK to HUB 1) has the
\* resistance 2 L / (56 A) of the configured distance L from the source to
\* the first hub, and a drop of its current times that resistance, as
\* every later segment has.
FirstSegmentUsesItsDistance ==
    Len(leitungswiderstaende) >= 1 =>
        /\ leitungswiderstaende[1] =
               RDiv(RMul(FromInt(2), hub_distanzen[1]),
                    RMul(FromInt(56), leitung_querschnitt))
        /\ spannungsabfall_liste[1] =
               RMul(leitungswiderstaende[1], Rat(hub_stroeme[1], 1000))

\* the current [mA] main.py should put through the segment ending at hub i
\* (1-based): hub i and every hub after it
DownstreamStrom(i) ==
    SumSeq([j \in 1..(Len(hub_stroeme) - i + 1) |-> hub_stroeme[j + i - 1]])

\* C18 as stated: in main.py the drop of the segment ending at hub i (after
\* the first) is its resistance times the summed current of hub i and the
\* hubs downstream of it, so the segment currents do not increase away from
\* the source.
SegmentCarriesDownstreamStrom ==
    \A i \in 2..Len(spannungsabfall_liste) :
        spannungsabfall_liste[i] =
            RMul(leitungswiderstaende[i], Rat(DownstreamStrom(i), 1000))


\* what main.py does instead (C17): 10 m from the source to hub 1, 5 A, and
\* neither resistance nor drop
FirstSegmentZeroed ==
    /\ Len(leitungswiderstaende) >= 1
    /\ hub_distanzen[1] = FromInt(10)
    /\ hub_stroeme[1] = 5000
    /\ leitungswiderstaende[1] = FromInt(0)
    /\ spannungsabfall_liste[1] = FromInt(0)

\* what main.py does instead (C18): of two hubs of 5 A each, the segment
\* into the second (5/56 Ohm) drops 10 A x 5/56 Ohm
LastSegmentCarriesWholeChain ==
    /\ hub_stroeme = <<5000, 5000>>
    /\ Len(spannungsabfall_liste) = 2
    /\ leitungswiderstaende[2] = Rat(5, 56)
    /\ spannungsabfall_liste[2] = RMul(Rat(5, 56), FromInt(10))


----------------------------------------------------------------------------
(* Properties: what the statuses are computed from (checked under          *)
(* SpecStatus)                                                             *)

\* C19: the statuses are computed from the record fields: the remaining
\* voltage rounded to 2 decimals and the current rounded to 3.  A link's
\* minimum voltage is the least of its remaining-voltage fields, its
\* current the current field of its first record; the link is flagged for
\* voltage exactly when that minimum is below min_voltage, the nodes named
\* are those whose field is below it, and the system's minimum voltage,
\* link currents and status are those of the links.
StatusFromRoundedFields ==
    /\ \A k \in 1..Len(link_status) :
           LET rows == RowsOf(k)
               s == link_status[k]
               named == {s.problem_nodes[j] : j \in 1..Len(s.problem_nodes)}
           IN  /\ \A r \in 1..Len(rows) :
                      /\ HasDecimals(rows[r].RemainingVoltage, 2)
                      /\ HasDecimals(rows[r].Current, 3)
                      /\ RLe(s.link_min_voltage, rows[r].RemainingVoltage)
                      /\ rows[r].To \in named <=>
                             RLt(rows[r].RemainingVoltage, min_voltage)
               /\ \E r \in 1..Len(rows) :
                      s.link_min_voltage = rows[r].RemainingVoltage
               /\ s.link_current = rows[1].Current
               /\ s.voltage_error <=> RLt(s.link_min_voltage, min_voltage)
               /\ s.voltage_error <=> named # {}
               /\ s.current_error <=> RLt(max_link_current, s.link_current)
    /\ overall_status # <<>> =>
           LET o == overall_status[1]
           IN  /\ \E k \in 1..Len(link_status) :
                      o.min_voltage_overall = link_status[k].link_min_voltage
               /\ \A k \in 1..Len(link_status) :
                      /\ RLe(o.min_voltage_overall, link_status[k].link_min_voltage)
                      /\ o.link_currents[k].link_current = link_status[k].link_current
               /\ RLt(o.min_voltage_overall, min_voltage) <=>
                      \E k \in 1..Len(link_status) : link_status[k].voltage_error
               /\ o.overall_status_color = "red" <=>
                      \/ RLt(o.min_voltage_overall, min_voltage)
                      \/ \E k \in 1..Len(link_status) :
                             RLt(max_link_current, o.link_currents[k].link_current)

\* C19 witness: with min_voltage = 47.781 V the last link, at 47.78125 V
\* unrounded throughout, is flagged for its field of 47.78 V, its hub is
\* named and the system is red
FlaggedOnRoundedValueOnly ==
    /\ pc = "done"
    /\ min_voltage = Rat(47781, 1000)
    /\ \A r \in 1..Len(voltage_values) : ~RLt(voltage_values[r], min_voltage)
    /\ link_status[Len(link_status)].voltage_error
    /\ ~link_status[Len(link_status)].current_error
    /\ link_status[Len(link_status)].problem_nodes # <<>>
    /\ overall_status[1].overall_status_color = "red"
    /\ \A k \in 1..Len(link_status) : ~link_status[k].current_error


----------------------------------------------------------------------------
(* Properties: the first hub's distance (checked under Spec)               *)

\* the hubs of a link with the first hub's "distance from previous unit"
\* set to d metres
FirstHubAt(hubs, d) == [hubs EXCEPT ![1].distance = FromInt(d)]

\* C20: the first record of a link has the link's cable length to its
\* first hub as its length, and the first hub's own distance enters
\* nothing: with that distance set to 0 or 25 m the link's records and
\* status come out as they are.
FirstHubDistanceUnused ==
    \A k \in 1..Len(link_results) :
        LET id == link_results[k].link_id
            hubs == LinkHubs(id)
            L == link_input_length[id]
        IN  /\ RowsOf(k)[1].Distance = L
            /\ \A d \in {0, 25} :
                   LET moved == LinkRecords(id, FirstHubAt(hubs, d), L)
                   IN  /\ LinkComplete(k) => RowsOf(k) = moved
                       /\ k <= Len(link_status) =>
                              link_status[k] = LinkStatus(id, moved)

\* C20 witness: two links whose first hubs are both 0 m "from the previous
\* unit" and 10 m of cable from the source: each first record is 10 m long
\* and drops voltage
FirstHubsAtZeroButCabled ==
    /\ pc = "done"
    /\ Len(link_results) = 2
    /\ \A k \in 1..2 :
           /\ LinkHubs(link_results[k].link_id)[1].distance = FromInt(0)
           /\ RowsOf(k)[1].Distance = FromInt(10)
           /\ RLt(FromInt(0), RowsOf(k)[1].dVoltage)


----------------------------------------------------------------------------
(* Properties: conservation of current (checked under SpecTopology)        *)

\* the sum of the link currents [A]: of the current fields of the first
\* records of links 1..k, and of the system overview's link_currents 1..k
RECURSIVE SourceCurrentsUpTo(_)
SourceCurrentsUpTo(k) ==
    IF k = 0 THEN FromInt(0)
    ELSE RAdd(SourceCurrentsUpTo(k - 1), RowsOf(k)[1].Current)
RECURSIVE OverviewCurrentsUpTo(_)
OverviewCurrentsUpTo(k) ==
    IF k = 0 THEN FromInt(0)
    ELSE RAdd(OverviewCurrentsUpTo(k - 1),
              overall_status[1].link_currents[k].link_current)

\* C21: once every link is computed, the currents of the links (the current
\* field of each link's first record) add up to the total system current,
\* the sum of all hub currents [mA] divided by 1000; the system overview's
\* link currents and total current are these.
LinkCurrentsAddUpToTotal ==
    /\ pc \in {"analyze", "overview", "done"} =>
           SourceCurrentsUpTo(Len(link_results)) =
               Rat(SumSeq([h \in 1..Len(hub_data) |-> hub_data[h].current_mA]), 1000)
    /\ overall_status # <<>> =>
           /\ Len(overall_status[1].link_currents) = Len(link_results)
           /\ OverviewCurrentsUpTo(Len(link_results)) =
                  overall_status[1].total_current_A
           /\ overall_status[1].total_current_A =
                  SourceCurrentsUpTo(Len(link_results))

\* C21 witness: 20 anodes, the third hub starting a second link: 10 A and
\* 2.5 A, 12.5 A in all
TwoLinksShareTheTotal ==
    /\ overall_status # <<>>
    /\ total_anodes = 20
    /\ Len(link_results) = 2
    /\ RowsOf(1)[1].Current = FromInt(10)
    /\ RowsOf(2)[1].Current = Rat(5, 2)
    /\ overall_status[1].total_current_A = Rat(25, 2)

=============================================================================
